---------------------------- MODULE Spec2Model ----------------------------
(***************************************************************************)
(* A model of the dnd5e text enrichers (module/enrichers.mjs), of the      *)
(* click dispatcher rollAction and of CastActivity.use().                  *)
(*                                                                         *)
(* Three specifications share the module:                                  *)
(*   Spec      - enrichString applied to one directive at a time           *)
(*   ClickSpec - rollAction applied to one click at a time                 *)
(*   CastSpec  - CastActivity.use(), split at its await points, with the   *)
(*               database completing createEmbeddedDocuments on its own    *)
(*                                                                         *)
(* JavaScript strings are sequences of one-character strings, so that      *)
(* split, join, replace, startsWith and the number conversions are         *)
(* computed and not assumed.                                               *)
(***************************************************************************)
EXTENDS Integers, Sequences, FiniteSets, TLC

VARIABLES
  \* ---- CastActivity.use()
  item,            \* this.item: [isEmbedded, pack, isOwner]
  actorItems,      \* this.actor.items: sequence of [source, cachedFor]
  pendingCreates,  \* createEmbeddedDocuments calls the database has not completed
  castPc,          \* position of the running use() call
  castCall,        \* locals of the running use() call
  castLog,         \* observable events of the running use() call, in order
  castRet,         \* what the last use() call returned (or threw)
  \* ---- rollAction
  isGM,            \* game.user.isGM
  click,           \* the last click event handled
  clickOut,        \* what rollAction did for it
  \* ---- enrichString
  match,           \* the last regular expression match enriched
  options,         \* the EnrichmentOptions it was enriched with
  enriched,        \* what enrichString returned and which builder it called
  rolled           \* what rollDamage did on a click on the returned link group

castVars == <<item, actorItems, pendingCreates, castPc, castCall, castLog, castRet>>
clickVars == <<isGM, click, clickOut>>
enrichVars == <<match, options, enriched, rolled>>
vars == <<castVars, clickVars, enrichVars>>

-----------------------------------------------------------------------------
(* Bounds of the model *)

\* Most items the actor may hold (created spells included).
MaxItems == 3

\* Most scene tokens targeted when a link is clicked.
MaxTargets == 2

\* Most blank-separated parts in a directive's configuration.
MaxParts == 2

\* Largest number written in an attack directive.
MaxN == 2

-----------------------------------------------------------------------------
(* JavaScript strings and values                                           *)

\* A string is a sequence of one-character strings.
Digits == <<"0", "1", "2", "3", "4", "5", "6", "7", "8", "9">>

DigitChars == {Digits[i] : i \in 1..10}

DigitValue(c) == (CHOOSE i \in 1..10 : Digits[i] = c) - 1

\* String(n) for a natural number n
RECURSIVE NatToStr(_)
NatToStr(n) == IF n < 10 THEN <<Digits[n + 1]>> ELSE NatToStr(n \div 10) \o <<Digits[(n % 10) + 1]>>

\* String(n) for an integer n
NumToStr(n) == IF n < 0 THEN <<"-">> \o NatToStr(0 - n) ELSE NatToStr(n)

RECURSIVE DigitsToNat(_)
DigitsToNat(s) ==
  IF s = <<>> THEN 0
  ELSE DigitsToNat(SubSeq(s, 1, Len(s) - 1)) * 10 + DigitValue(s[Len(s)])

AllDigits(s) == s # <<>> /\ \A i \in 1..Len(s) : s[i] \in DigitChars

\* Number.isNumeric(s) for a string s: +s is not NaN and s is not empty. Over
\* the characters of the directives modelled (no ".", no exponent, no
\* blanks inside a part) these are the optionally signed digit strings.
IsNumeric(s) ==
  /\ s # <<>>
  /\ IF s[1] \in {"+", "-"} THEN AllDigits(Tail(s)) ELSE AllDigits(s)

\* Number(s) for a numeric string s
ToNumber(s) ==
  IF s[1] = "-" THEN 0 - DigitsToNat(Tail(s))
  ELSE IF s[1] = "+" THEN DigitsToNat(Tail(s))
  ELSE DigitsToNat(s)

\* String.prototype.toLowerCase, over the letters the directives use.
LowerChar(c) ==
  CASE c = "A" -> "a" [] c = "D" -> "d" [] c = "H" -> "h" [] c = "R" -> "r"
    [] c = "S" -> "s" [] c = "T" -> "t" [] c = "F" -> "f"
    [] OTHER -> c

ToLowerCase(s) == [i \in 1..Len(s) |-> LowerChar(s[i])]

StartsWith(s, p) == Len(s) >= Len(p) /\ SubSeq(s, 1, Len(p)) = p

\* Array.prototype.join
RECURSIVE Join(_, _)
Join(strs, sep) ==
  IF strs = <<>> THEN <<>>
  ELSE IF Len(strs) = 1 THEN strs[1]
  ELSE strs[1] \o sep \o Join(Tail(strs), sep)

\* Position of the first occurrence of character c in s; 0 when there is none.
IndexOf(s, c) ==
  LET where == {i \in 1..Len(s) : s[i] = c}
  IN IF where = {} THEN 0 ELSE CHOOSE i \in where : \A j \in where : i <= j

\* String.prototype.split with a one-character separator
RECURSIVE Split(_, _)
Split(s, c) ==
  LET i == IndexOf(s, c)
  IN IF i = 0 THEN <<s>>
     ELSE <<SubSeq(s, 1, i - 1)>> \o Split(SubSeq(s, i + 1, Len(s)), c)

\* String.prototype.replace with a one-character string pattern: only the
\* first occurrence is replaced.
ReplaceFirst(s, c, by) ==
  LET i == IndexOf(s, c)
  IN IF i = 0 THEN s ELSE SubSeq(s, 1, i - 1) \o by \o SubSeq(s, i + 1, Len(s))

\* The parts of a configuration string: match(/(?:[^\s"]+|"[^"]*")+/g). The
\* directives modelled hold no double quote, so the parts are the maximal
\* runs of characters other than the blank.
Parts(s) == SelectSeq(Split(s, " "), LAMBDA p : p # <<>>)

\* JavaScript values held by a configuration object
Undef == [t |-> "undefined", s |-> <<>>, n |-> 0, b |-> FALSE]
Str(s) == [t |-> "string", s |-> s, n |-> 0, b |-> FALSE]
Num(n) == [t |-> "number", s |-> <<>>, n |-> n, b |-> FALSE]
Bool(b) == [t |-> "boolean", s |-> <<>>, n |-> 0, b |-> b]

\* Truthiness of a value
Truthy(v) ==
  CASE v.t = "string" -> v.s # <<>>
    [] v.t = "number" -> v.n # 0
    [] v.t = "boolean" -> v.b
    [] OTHER -> FALSE

\* String(v), as the DOM and Array.prototype.join convert a value
ToStr(v) ==
  CASE v.t = "string" -> v.s
    [] v.t = "number" -> NumToStr(v.n)
    [] v.t = "boolean" -> IF v.b THEN <<"t", "r", "u", "e">> ELSE <<"f", "a", "l", "s", "e">>
    [] OTHER -> <<"u", "n", "d", "e", "f", "i", "n", "e", "d">>

-----------------------------------------------------------------------------
(* Configuration objects: parseConfig                                      *)

Null == [t |-> "null", s |-> <<>>, n |-> 0, b |-> FALSE]

\* A configuration object: its own enumerable keys other than values and
\* _config (kv), config.values and config._config.
EmptyConfig(raw) == [kv |-> [k \in {} |-> Undef], values |-> <<>>, raw |-> raw]

Has(c, key) == key \in DOMAIN c.kv

\* config[key]
Get(c, key) == IF Has(c, key) THEN c.kv[key] ELSE Undef

\* config[key] = v
Set(c, key, v) ==
  [c EXCEPT !.kv = [k \in (DOMAIN c.kv) \cup {key} |-> IF k = key THEN v ELSE c.kv[k]]]

\* delete config[key]
Delete(c, key) == [c EXCEPT !.kv = [k \in (DOMAIN c.kv) \ {key} |-> c.kv[k]]]

\* Lines 81-86: one part of the configuration string. part.split("=") gives
\* the key and, when there is an "=", the value.
parsePart(config, part) ==
  LET kvs == Split(part, "=")
      key == kvs[1]
      hasValue == Len(kvs) >= 2
      value == kvs[2]
  IN IF ~hasValue THEN [config EXCEPT !.values = Append(config.values, key)]
     ELSE IF ToLowerCase(value) \in {<<"t", "r", "u", "e">>, <<"f", "a", "l", "s", "e">>}
       THEN Set(config, key, Bool(ToLowerCase(value) = <<"t", "r", "u", "e">>))
     ELSE IF IsNumeric(value) THEN Set(config, key, Num(ToNumber(value)))
     ELSE Set(config, key, Str(value))

RECURSIVE parseParts(_, _)
parseParts(config, parts) ==
  IF parts = <<>> THEN config
  ELSE parseParts(parsePart(config, Head(parts)), Tail(parts))

\* parseConfig(match), lines 78-88
parseOne(raw) == parseParts(EmptyConfig(raw), Parts(raw))

\* parseConfig(match, { multiple }), lines 76-89: one configuration, or one
\* for each "&"-separated piece. An absent configuration group is "".
parseConfig(raw, multiple) ==
  LET text == IF raw.t = "undefined" THEN <<>> ELSE raw.s
  IN IF multiple
       THEN [isArray |-> TRUE,
             list |-> LET pieces == Split(text, "&")
                      IN [i \in 1..Len(pieces) |-> parseOne(pieces[i])],
             one |-> EmptyConfig(<<>>)]
       ELSE [isArray |-> FALSE, list |-> <<>>, one |-> parseOne(text)]

-----------------------------------------------------------------------------
(* Items, activities and elements                                          *)

\* Keys of CONFIG.DND5E.attackModes, damageTypes and healingTypes used by
\* the directives modelled.
AttackModes == {<<"t", "h", "r", "o", "w", "n">>}
DamageTypes == {<<"f", "i", "r", "e">>, <<"c", "o", "l", "d">>, <<"a", "c", "i", "d">>}
HealingTypes == {<<"h", "e", "a", "l", "i", "n", "g">>, <<"t", "e", "m", "p", "h", "p">>}

\* An activity of the item the text belongs to: its id, its type, the
\* to-hit formula its attack data resolves to and the formula and damage
\* types of each roll of its damage configuration.
Activity(id, type, toHit, rolls) == [id |-> id, type |-> type, toHit |-> toHit, rolls |-> rolls]

\* activity.uuid
uuidOf(a) == <<"#">> \o a.id

NoActivity == Activity(<<>>, "none", <<>>, <<>>)

\* options.relativeTo: no document, a weapon with two attack activities, or
\* an item whose only activity is a utility activity.
NoItem == [exists |-> FALSE, rules |-> <<>>, parentRules |-> <<>>, activities |-> <<>>]

Weapon ==
  [exists |-> TRUE, rules |-> <<"2", "0", "1", "4">>, parentRules |-> <<>>,
   activities |-> <<Activity(<<"a", "1">>, "attack", <<"8">>, <<[formula |-> <<"1", "d", "8">>, types |-> <<<<"f", "i", "r", "e">>>>]>>),
                    Activity(<<"a", "2">>, "attack", <<"3">>, <<[formula |-> <<"2", "d", "4">>, types |-> <<<<"c", "o", "l", "d">>, <<"a", "c", "i", "d">>>>]>>)>>]

Trinket ==
  [exists |-> TRUE, rules |-> <<>>, parentRules |-> <<"2", "0", "2", "4">>,
   activities |-> <<Activity(<<"a", "1">>, "utility", <<>>, <<>>)>>]

Items == {NoItem, Weapon, Trinket}

\* activities.get(key): the activity with that id. Ids are strings, so a
\* key of another type finds nothing.
activitiesGet(it, key) ==
  LET found == {i \in 1..Len(it.activities) : Str(it.activities[i].id) = key}
  IN IF ~it.exists \/ found = {} THEN NoActivity
     ELSE it.activities[CHOOSE i \in found : TRUE]

\* activities.getByType(type), in the item's order
getByType(it, type) == SelectSeq(it.activities, LAMBDA a : a.type = type)

\* activities.getByTypes(...types): the activities of each type in turn
getByTypes(it, types) ==
  IF types = <<>> THEN <<>>
  ELSE getByType(it, types[1]) \o getByType(it, types[2]) \o getByType(it, types[3])

\* simplifyRollFormula(formula) on the formulas modelled: a leading "+" of a
\* number is dropped (the roll's terms are printed back), dice are kept.
simplifyRollFormula(f) == IF IsNumeric(f) THEN NumToStr(ToNumber(f)) ELSE f

\* Roll.replaceFormulaData(formula, data): the formulas modelled hold no
\* "@" reference, and a formula without one is returned as it is.
replaceFormulaData(f) == f

\* _getRulesVersion(options), lines 98-103
getRulesVersion(opts) ==
  IF opts.relativeTo.parentRules # <<>> THEN opts.relativeTo.parentRules
  ELSE IF opts.relativeTo.rules # <<>> THEN opts.relativeTo.rules
  ELSE IF opts.rulesVersion = "modern" THEN <<"2", "0", "2", "4">> ELSE <<"2", "0", "1", "4">>

\* An element (or null, or the TypeError an enricher threw): its tag and
\* class, its dataset, its text, the localization template used and, for a
\* damage link, the formula and type labels of each part.
Element(kind, dataset, text, template, parts) ==
  [kind |-> kind, dataset |-> dataset, text |-> text, template |-> template, parts |-> parts]

NoDataset == [k \in {} |-> <<>>]

NullElement == Element("null", NoDataset, <<>>, "none", <<>>)

TypeError == Element("TypeError", NoDataset, <<>>, "none", <<>>)

\* _addDataset(element, dataset), lines 893-897: the keys that do not start
\* with "_", other than values, whose value is truthy; the DOM stores the
\* value as a string.
addDataset(config) ==
  LET keys == {k \in DOMAIN config.kv :
                 /\ ~StartsWith(k, <<"_">>)
                 /\ k # <<"v", "a", "l", "u", "e", "s">>
                 /\ Truthy(config.kv[k])}
  IN [k \in keys |-> ToStr(config.kv[k])]

\* createRollLink(label, dataset, { tag }), lines 1022-1029
createRollLink(label, config, tag) ==
  Element(tag, addDataset(config), label, "none", <<>>)

-----------------------------------------------------------------------------
(* Attack enricher                                                         *)

\* Lines 163-167: the values of the configuration, each an attack mode, the
\* word extended, or a part of the formula. st = [config, formulaParts].
RECURSIVE attackValues(_, _)
attackValues(st, values) ==
  IF values = <<>> THEN st
  ELSE LET value == Head(values)
           next == IF value \in AttackModes
                     THEN [st EXCEPT !.config = Set(st.config, <<"a", "t", "t", "a", "c", "k", "M", "o", "d", "e">>, Str(value))]
                   ELSE IF value = <<"e", "x", "t", "e", "n", "d", "e", "d">>
                     THEN [st EXCEPT !.config = Set(st.config, <<"f", "o", "r", "m", "a", "t">>, Str(<<"e", "x", "t", "e", "n", "d", "e", "d">>))]
                   ELSE [st EXCEPT !.formulaParts = Append(st.formulaParts, value)]
       IN attackValues(next, Tail(values))

\* Line 156: an activity ID and a formula are both given.
bothGiven(config) == Truthy(Get(config, <<"a", "c", "t", "i", "v", "i", "t", "y">>)) /\ Truthy(Get(config, <<"f", "o", "r", "m", "u", "l", "a">>))

\* Lines 170-171: the activity the link is made for, if any.
attackActivity(config, formula, it) ==
  IF Truthy(Get(config, <<"a", "c", "t", "i", "v", "i", "t", "y">>)) THEN activitiesGet(it, Get(config, <<"a", "c", "t", "i", "v", "i", "t", "y">>))
  ELSE IF formula = <<>> /\ it.exists /\ getByType(it, "attack") # <<>>
    THEN getByType(it, "attack")[1]
  ELSE NoActivity

\* enrichAttack(config, label, options), lines 155-220
enrichAttack(config0, label, opts, rules) ==
  IF bothGiven(config0) THEN NullElement
  ELSE
    LET given == IF Truthy(Get(config0, <<"f", "o", "r", "m", "u", "l", "a">>))
                   THEN <<ToStr(Get(config0, <<"f", "o", "r", "m", "u", "l", "a">>))>> ELSE <<>>
        st == attackValues([config |-> config0, formulaParts |-> given], config0.values)
        formula1 == replaceFormulaData(Join(st.formulaParts, <<" ">>))
        activity == attackActivity(st.config, formula1, opts.relativeTo)
        linked == activity # NoActivity
    IN IF linked /\ activity.type # "attack" THEN TypeError
       ELSE
         LET formula == IF linked THEN simplifyRollFormula(replaceFormulaData(activity.toHit))
                        ELSE formula1
             c1 == Set(st.config, <<"f", "o", "r", "m", "u", "l", "a">>, Str(formula))
             c2 == IF linked THEN Delete(Set(c1, <<"a", "c", "t", "i", "v", "i", "t", "y", "U", "u", "i", "d">>, Str(uuidOf(activity))), <<"a", "c", "t", "i", "v", "i", "t", "y">>)
                   ELSE c1
         IN IF ~linked /\ formula = <<>> THEN NullElement
            ELSE
              LET c3 == Set(c2, <<"t", "y", "p", "e">>, Str(<<"a", "t", "t", "a", "c", "k">>))
                  simple == simplifyRollFormula(formula)
                  displayFormula == IF StartsWith(simple, <<"+">>) \/ StartsWith(simple, <<"-">>)
                                      THEN simple ELSE <<"+">> \o simple
                  template == IF rules = <<"2", "0", "1", "4">> THEN "AttackLong" ELSE "AttackShort"
              IN IF label.t # "undefined" THEN createRollLink(label.s, c3, "a.roll-link")
                 ELSE IF Get(c3, <<"f", "o", "r", "m", "a", "t">>) = Str(<<"e", "x", "t", "e", "n", "d", "e", "d">>)
                   THEN Element("span.attack-extended", addDataset(c3), displayFormula,
                                template, <<>>)
                 ELSE Element("span.roll-link-group", addDataset(c3), displayFormula,
                              template, <<>>)

-----------------------------------------------------------------------------
(* Damage enricher                                                         *)

\* Lines 539-547: the values of one sub-configuration. st = [config, c,
\* formulaParts], config being the link's configuration and c the
\* sub-configuration.
RECURSIVE damageValues(_, _)
damageValues(st, values) ==
  IF values = <<>> THEN st
  ELSE LET value == Head(values)
           next ==
             IF value \in DamageTypes THEN [st EXCEPT !.c = Set(st.c, <<"t", "y", "p", "e">>, Str(value))]
             ELSE IF value \in HealingTypes THEN [st EXCEPT !.c = Set(st.c, <<"t", "y", "p", "e">>, Str(value))]
             ELSE IF value \in AttackModes
               THEN [st EXCEPT !.config = Set(st.config, <<"a", "t", "t", "a", "c", "k", "M", "o", "d", "e">>, Str(value))]
             ELSE IF value = <<"a", "v", "e", "r", "a", "g", "e">>
               THEN [st EXCEPT !.config = Set(st.config, <<"a", "v", "e", "r", "a", "g", "e">>, Bool(TRUE))]
             ELSE IF value = <<"e", "x", "t", "e", "n", "d", "e", "d">>
               THEN [st EXCEPT !.config = Set(st.config, <<"f", "o", "r", "m", "a", "t">>, Str(<<"e", "x", "t", "e", "n", "d", "e", "d">>))]
             ELSE IF value = <<"t", "e", "m", "p">> THEN [st EXCEPT !.c = Set(st.c, <<"t", "y", "p", "e">>, Str(<<"t", "e", "m", "p", "h", "p">>))]
             ELSE [st EXCEPT !.formulaParts = Append(st.formulaParts, value)]
       IN damageValues(next, Tail(values))

\* Lines 535-553: one sub-configuration folded into the link's
\* configuration. acc = [config, formulas, damageTypes].
damageConfig(acc, c0, isHealing) ==
  LET cfgA == IF Truthy(Get(c0, <<"a", "v", "e", "r", "a", "g", "e">>)) THEN Set(acc.config, <<"a", "v", "e", "r", "a", "g", "e">>, Get(c0, <<"a", "v", "e", "r", "a", "g", "e">>))
              ELSE acc.config
      cfgB == IF Truthy(Get(c0, <<"f", "o", "r", "m", "a", "t">>)) THEN Set(cfgA, <<"f", "o", "r", "m", "a", "t">>, Get(c0, <<"f", "o", "r", "m", "a", "t">>)) ELSE cfgA
      given == IF Truthy(Get(c0, <<"f", "o", "r", "m", "u", "l", "a">>)) THEN <<ToStr(Get(c0, <<"f", "o", "r", "m", "u", "l", "a">>))>> ELSE <<>>
      st == damageValues([config |-> cfgB, c |-> c0, formulaParts |-> given], c0.values)
      formula == replaceFormulaData(Join(st.formulaParts, <<" ">>))
      type == IF Get(st.c, <<"t", "y", "p", "e">>).t \in {"undefined", "null"}
                THEN (IF isHealing THEN Str(<<"h", "e", "a", "l", "i", "n", "g">>) ELSE Null)
                ELSE Get(st.c, <<"t", "y", "p", "e">>)
  IN IF formula # <<>>
       THEN [config |-> st.config,
             formulas |-> Append(acc.formulas, formula),
             damageTypes |-> Append(acc.damageTypes, type)]
       ELSE [acc EXCEPT !.config = st.config]

RECURSIVE damageConfigs(_, _, _)
damageConfigs(acc, list, isHealing) ==
  IF list = <<>> THEN acc
  ELSE damageConfigs(damageConfig(acc, Head(list), isHealing), Tail(list), isHealing)

\* Line 555: t?.replace("/", "|") on one damage type
slashToBar(t) ==
  IF t.t \in {"undefined", "null"} THEN Undef ELSE Str(ReplaceFirst(t.s, "/", <<"|">>))

\* Line 563: the activity named by the link's configuration. The link's
\* configuration is built afresh at line 533 and no sub-configuration's
\* activity is copied into it.
namedActivity(config, it) == activitiesGet(it, Get(config, <<"a", "c", "t", "i", "v", "i", "t", "y">>))

\* Lines 564-571: without a named activity, the first attack, damage or save
\* activity that has damage parts. config.formula is never set.
defaultActivity(config, it) ==
  LET candidates == SelectSeq(getByTypes(it, <<"attack", "damage", "save">>),
                              LAMBDA a : a.rolls # <<>>)
  IN IF ~Truthy(Get(config, <<"f", "o", "r", "m", "u", "l", "a">>)) /\ it.exists /\ candidates # <<>>
       THEN candidates[1]
       ELSE NoActivity

\* Lines 576-581: the formulas and damage types of an activity's rolls
rollFormulas(a) == [i \in 1..Len(a.rolls) |-> simplifyRollFormula(replaceFormulaData(a.rolls[i].formula))]

rollTypes(a) == [i \in 1..Len(a.rolls) |-> Str(Join(a.rolls[i].types, <<"|">>))]

\* Array.prototype.join over values: undefined and null give "".
joinValues(vs, sep) ==
  Join([i \in 1..Len(vs) |-> IF vs[i].t \in {"undefined", "null"} THEN <<>> ELSE ToStr(vs[i])], sep)

\* Lines 599-601: the labels of the types of one part; unknown types have
\* no label and are dropped. A type's label is modelled by its key.
typeLabels(t) ==
  IF t.t \in {"undefined", "null"} THEN <<>>
  ELSE SelectSeq(Split(t.s, "|"), LAMBDA x : x \in DamageTypes \cup HealingTypes)

\* Lines 608-620: what is shown as the average of a part: nothing, the
\* average computed from the roll, or the number given.
shownAverage(config) ==
  LET average == Get(config, <<"a", "v", "e", "r", "a", "g", "e">>)
  IN IF ~Truthy(average) THEN Undef
     ELSE IF average = Bool(TRUE) THEN average
     ELSE IF average.t = "number" \/ (average.t = "string" /\ IsNumeric(average.s)) THEN average
     ELSE Undef

\* Lines 596-642: the element built for the joined formulas and types.
damageElement(config, formulas, types, label) ==
  LET parts == [i \in 1..Len(formulas) |->
                  [formula |-> formulas[i],
                   types |-> typeLabels(types[i]),
                   average |-> shownAverage(config)]]
      template == IF Truthy(Get(config, <<"a", "v", "e", "r", "a", "g", "e">>)) /\ Len(formulas) = 2
                    THEN "DamageDouble" ELSE "list"
  IN IF label.t # "undefined" THEN createRollLink(label.s, config, "a.roll-link")
     ELSE IF Get(config, <<"f", "o", "r", "m", "a", "t">>) = Str(<<"e", "x", "t", "e", "n", "d", "e", "d">>)
       THEN Element("span.damage-extended", addDataset(config), <<>>, template, parts)
     ELSE Element("a.roll-link-group", addDataset(config), <<>>, template, parts)

\* Lines 573-594: the linked activity's uuid, formulas and types are added
\* to the configuration; without any formula there is no element.
damageLinked(config, formulas0, types0, activity, label) ==
  LET linked == activity # NoActivity
      c2 == IF linked
              THEN Delete(Set(config, <<"a", "c", "t", "i", "v", "i", "t", "y", "U", "u", "i", "d">>, Str(uuidOf(activity))), <<"a", "c", "t", "i", "v", "i", "t", "y">>)
              ELSE config
      formulas == IF linked THEN formulas0 \o rollFormulas(activity) ELSE formulas0
      types == IF linked THEN types0 \o rollTypes(activity) ELSE types0
  IN IF formulas = <<>> THEN NullElement
     ELSE damageElement(Set(Set(c2, <<"f", "o", "r", "m", "u", "l", "a", "s">>, Str(Join(formulas, <<"&">>))),
                            <<"d", "a", "m", "a", "g", "e", "T", "y", "p", "e", "s">>, Str(joinValues(types, <<"&">>))),
                        formulas, types, label)

\* Lines 558-571: an activity ID together with formulas gives no element;
\* otherwise the named activity, or else the default one, is looked up.
damageActivity(config, formulas0, types0, label, opts) ==
  IF Truthy(Get(config, <<"a", "c", "t", "i", "v", "i", "t", "y">>)) /\ formulas0 # <<>> THEN NullElement
  ELSE damageLinked(config, formulas0, types0,
                    IF namedActivity(config, opts.relativeTo) # NoActivity
                      THEN namedActivity(config, opts.relativeTo)
                      ELSE defaultActivity(config, opts.relativeTo),
                    label)

\* Lines 555-556: "/" becomes "|" in each damage type (a type that is a
\* number or a boolean has no replace method), and the extended format
\* shows the average unless one was given.
damageParsed(acc, label, opts) ==
  IF \E i \in 1..Len(acc.damageTypes) : acc.damageTypes[i].t \in {"number", "boolean"}
    THEN TypeError
  ELSE damageActivity(IF Get(acc.config, <<"f", "o", "r", "m", "a", "t">>) = Str(<<"e", "x", "t", "e", "n", "d", "e", "d">>)
                         /\ Get(acc.config, <<"a", "v", "e", "r", "a", "g", "e">>).t \in {"undefined", "null"}
                        THEN Set(acc.config, <<"a", "v", "e", "r", "a", "g", "e">>, Bool(TRUE)) ELSE acc.config,
                      acc.formulas,
                      [i \in 1..Len(acc.damageTypes) |-> slashToBar(acc.damageTypes[i])],
                      label, opts)

\* enrichDamage(configs, label, options), lines 532-642
enrichDamage(configs, isHealing, label, opts) ==
  IF ~configs.isArray THEN TypeError
  ELSE damageParsed(
         damageConfigs([config |-> Set(Set(EmptyConfig(<<>>), <<"t", "y", "p", "e">>, Str(<<"d", "a", "m", "a", "g", "e">>)),
                                       <<"r", "o", "l", "l", "T", "y", "p", "e">>, Str(IF isHealing THEN <<"h", "e", "a", "l", "i", "n", "g">> ELSE <<"d", "a", "m", "a", "g", "e">>)),
                        formulas |-> <<>>, damageTypes |-> <<>>],
                       configs.list, isHealing),
         label, opts)

-----------------------------------------------------------------------------
(* CastActivity.use()                                                      *)

Undefined == "undefined"

\* this.spell.uuid and the uuid of another spell
ThisSpell == "Compendium.spells.Item.s1"
OtherSpell == "Compendium.spells.Item.s2"
\* this.relativeUUID and the relative uuid of another cast activity
ThisRel == ".Item.i1.Activity.c1"
OtherRel == ".Item.i1.Activity.c2"

\* The ActivityUsageResults a spell's use() may resolve to; undefined when the
\* use was cancelled.
UseResults == {Undefined, "results"}

ItemRecords == [source : {ThisSpell, OtherSpell}, cachedFor : {ThisRel, OtherRel, Undefined}]

\* Positions of the actor's items whose compendium source is uuid:
\* actor.sourcedItems.get(uuid, { legacy: false })
sourcedItems(items, uuid) == {i \in 1..Len(items) : items[i].source = uuid}

\* get cachedSpell(): the first sourced item flagged as cached for this
\* activity, as a position in actorItems; 0 stands for undefined.
cachedSpell(items) ==
  LET found == {i \in sourcedItems(items, ThisSpell) : items[i].cachedFor = ThisRel}
  IN IF found = {} THEN 0 ELSE CHOOSE i \in found : \A j \in found : i <= j

\* getCachedSpellData(): a clone of the original spell carrying the
\* cachedFor flag and the compendium source; undefined when fromUuid finds
\* no original spell.
NoData == [source |-> Undefined, cachedFor |-> Undefined]

getCachedSpellData(originalFound) ==
  IF ~originalFound THEN NoData
  ELSE [source |-> ThisSpell, cachedFor |-> ThisRel]

\* `await this.actor.createEmbeddedDocuments(...)[0]` indexes the promise
\* the call returns, not the array it resolves to: the value awaited, and
\* assigned to spell, is undefined whatever the database creates.
createdSpell(promised) == 0

\* Line 55: the item is not embedded in an actor, or lives in a compendium.
notUsableMutant(it) == ~it.isEmbedded

notUsable(it) == ~it.isEmbedded \/ it.pack

\* Line 71: only an explicit false from Hooks.call prevents the use.
preventedMutant(hook) == FALSE

prevented(hook) == hook = FALSE

\* Line 88: the post hook is called for truthy results only.
postHookCalledMutant(results) == TRUE

postHookCalled(results) == results # Undefined

\* rollDamage(event), lines 1204-1246, on the data set of the clicked link
\* group. Nothing rolled yet:
NoRoll == [via |-> "none", uuid |-> <<>>, rolls |-> <<>>, rollType |-> Undef, flavor |-> "none"]

\* Lines 1213-1214: formulas?.split("&") ?? []
splitOrEmpty(dataset, key) ==
  IF key \in DOMAIN dataset THEN Split(dataset[key], "&") ELSE <<>>

\* Lines 1219-1225: the roll built for the formula at position idx
damageRollAt(formulas, damageTypes, idx) ==
  LET types == IF idx <= Len(damageTypes) THEN Split(damageTypes[idx], "|") ELSE <<>>
  IN [parts |-> <<formulas[idx]>>,
      type |-> IF types = <<>> THEN Undef ELSE Str(types[1]),
      types |-> types]

\* found: whether fromUuid resolves the activity uuid (lines 1208-1211).
rollDamage(dataset, found) ==
  LET rollType == IF <<"r", "o", "l", "l", "T", "y", "p", "e">> \in DOMAIN dataset THEN Str(dataset[<<"r", "o", "l", "l", "T", "y", "p", "e">>]) ELSE Undef
  IN IF <<"a", "c", "t", "i", "v", "i", "t", "y", "U", "u", "i", "d">> \in DOMAIN dataset /\ found
       THEN [NoRoll EXCEPT !.via = "activity.rollDamage", !.uuid = dataset[<<"a", "c", "t", "i", "v", "i", "t", "y", "U", "u", "i", "d">>]]
     ELSE [via |-> "DamageRoll.build",
           uuid |-> <<>>,
           rolls |-> [idx \in 1..Len(splitOrEmpty(dataset, <<"f", "o", "r", "m", "u", "l", "a", "s">>)) |->
                        damageRollAt(splitOrEmpty(dataset, <<"f", "o", "r", "m", "u", "l", "a", "s">>),
                                     splitOrEmpty(dataset, <<"d", "a", "m", "a", "g", "e", "T", "y", "p", "e", "s">>), idx)],
           rollType |-> rollType,
           flavor |-> IF rollType = Str(<<"h", "e", "a", "l", "i", "n", "g">>) THEN "HealingRoll" ELSE "DamageRoll"]

\* The states of the parts a specification leaves at rest: no use() call
\* made, no click handled, no text enriched.
CastRest == [item |-> [isEmbedded |-> TRUE, pack |-> FALSE, isOwner |-> TRUE]]

ClickRest ==
  [isGM |-> FALSE,
   click |-> [target |-> "none", type |-> Undefined, anchorAction |-> Undefined,
              sceneTargets |-> 0, hasCharacter |-> FALSE],
   clickOut |-> [stopped |-> FALSE, branch |-> "none", rolls |-> <<>>,
                 messages |-> 0, warnings |-> 0, disabled |-> FALSE]]

EnrichRest ==
  [match |-> [type |-> <<"a", "t", "t", "a", "c", "k">>, config |-> Undef, label |-> Undef],
   options |-> [relativeTo |-> NoItem, rulesVersion |-> "modern"],
   enriched |-> [calls |-> <<>>, isHealing |-> FALSE, isConcentration |-> FALSE,
                 result |-> Element("pending", NoDataset, <<>>, "none", <<>>)]]

\* Line 71: what Hooks.call returned, as recorded for the running call.
returned(hook) == IF hook THEN "true" ELSE "false"

NoCall == [hook |-> "none", cached |-> 0, spell |-> 0, results |-> Undefined]

CastIdle == castPc \in {"idle", "returned", "threw"}

\* use(), lines 55-78 up to the first await: the guards, the pre hook, the
\* cached spell lookup and, when a cached spell exists, the call of its use().
UseBegin ==
  /\ CastIdle
  /\ Len(actorItems) + Len(pendingCreates) < MaxItems \/ cachedSpell(actorItems) # 0
  /\ \E hook \in BOOLEAN :
       IF notUsable(item)
         THEN /\ castLog' = <<>>
              /\ castRet' = Undefined
              /\ castCall' = NoCall
              /\ castPc' = "returned"
       ELSE IF ~item.isOwner
         THEN /\ castLog' = <<"notifications.error">>
              /\ castRet' = Undefined
              /\ castCall' = NoCall
              /\ castPc' = "returned"
       ELSE IF prevented(hook)
         THEN /\ castLog' = <<"preUseLinkedSpell">>
              /\ castRet' = Undefined
              /\ castCall' = [NoCall EXCEPT !.hook = returned(hook)]
              /\ castPc' = "returned"
       ELSE LET spell == cachedSpell(actorItems) IN
              /\ castCall' = [NoCall EXCEPT !.hook = returned(hook), !.cached = spell, !.spell = spell]
              /\ castRet' = "pending"
              /\ IF spell # 0
                   THEN /\ castLog' = <<"preUseLinkedSpell", "spell.use">>
                        /\ castPc' = "awaitUse"
                   ELSE /\ castLog' = <<"preUseLinkedSpell">>
                        /\ castPc' = "awaitData"
  /\ UNCHANGED <<item, actorItems, pendingCreates, clickVars, enrichVars>>

\* use(), line 75 once getCachedSpellData() has resolved: the creation is
\* requested from the database and the indexed promise is awaited.
UseCreate ==
  /\ castPc = "awaitData"
  /\ \E originalFound \in BOOLEAN :
       pendingCreates' = Append(pendingCreates, getCachedSpellData(originalFound))
  /\ castLog' = Append(castLog, "createEmbeddedDocuments")
  /\ castCall' = [castCall EXCEPT !.spell = createdSpell(Len(pendingCreates) + 1)]
  /\ castPc' = "awaitCreated"
  /\ UNCHANGED <<item, actorItems, castRet, clickVars, enrichVars>>

\* use(), line 78 on the creation path: spell.use() is called; on undefined
\* the call throws a TypeError and use() rejects.
UseSpell ==
  /\ castPc = "awaitCreated"
  /\ IF castCall.spell = 0
       THEN /\ castPc' = "threw"
            /\ castRet' = "TypeError"
            /\ castLog' = castLog
       ELSE /\ castPc' = "awaitUse"
            /\ castRet' = castRet
            /\ castLog' = Append(castLog, "spell.use")
  /\ UNCHANGED <<item, actorItems, pendingCreates, castCall, clickVars, enrichVars>>

\* use(), lines 78-90 once the spell's use() has resolved: the post hook
\* when the results are truthy, and the return.
UseResolve ==
  /\ castPc = "awaitUse"
  /\ \E results \in UseResults :
       /\ castCall' = [castCall EXCEPT !.results = results]
       /\ castLog' = IF postHookCalled(results)
                       THEN Append(castLog, "postUseLinkedSpell")
                       ELSE castLog
       /\ castRet' = results
  /\ castPc' = "returned"
  /\ UNCHANGED <<item, actorItems, pendingCreates, clickVars, enrichVars>>

\* The database completes the oldest createEmbeddedDocuments request: the
\* item joins the actor's items, unless its data was undefined.
DbCreate ==
  /\ pendingCreates # <<>>
  /\ actorItems' = IF Head(pendingCreates) = NoData
                     THEN actorItems
                     ELSE Append(actorItems, Head(pendingCreates))
  /\ pendingCreates' = Tail(pendingCreates)
  /\ UNCHANGED <<item, castPc, castCall, castLog, castRet, clickVars, enrichVars>>

CastInit ==
  /\ item \in [isEmbedded : BOOLEAN, pack : BOOLEAN, isOwner : BOOLEAN]
  /\ actorItems \in {<<>>} \cup {<<i>> : i \in ItemRecords}
  /\ pendingCreates = <<>>
  /\ castPc = "idle"
  /\ castCall = NoCall
  /\ castLog = <<>>
  /\ castRet = Undefined
  /\ isGM = ClickRest.isGM
  /\ click = ClickRest.click
  /\ clickOut = ClickRest.clickOut
  /\ match = EnrichRest.match
  /\ options = EnrichRest.options
  /\ enriched = EnrichRest.enriched
  /\ rolled = NoRoll

CastNext == UseBegin \/ UseCreate \/ UseSpell \/ UseResolve \/ DbCreate

\* Position of event e in the log of the running call; 0 when it did not occur.
At(e) ==
  LET where == {i \in 1..Len(castLog) : castLog[i] = e}
  IN IF where = {} THEN 0 ELSE CHOOSE i \in where : \A j \in where : i <= j

Count(e) == Cardinality({i \in 1..Len(castLog) : castLog[i] = e})

CastEnded == castPc \in {"returned", "threw"}

\* C3: when a dnd5e.preUseLinkedSpell handler returns false, use() ends
\* having only called that hook: no cached spell is created, no spell is
\* used, the post hook is not called, and undefined is returned.
C3_PreHookPrevents ==
  (CastEnded /\ castCall.hook = "false") =>
     /\ castLog = <<"preUseLinkedSpell">>
     /\ castPc = "returned"
     /\ castRet = Undefined

C3_Witness ==
  /\ castPc = "returned"
  /\ castCall.hook = "false"
  /\ item.isEmbedded /\ ~item.pack /\ item.isOwner
  /\ cachedSpell(actorItems) = 0

\* C4: the events of a use() call are ordered: pre hook, then the creation
\* of the cached spell (if any), then the spell's use(), then the post hook;
\* the post hook is called at most once, only once the spell's use() has
\* resolved and only for truthy results; use() returns those results.
C4_EventOrder ==
  /\ \A e \in {"preUseLinkedSpell", "createEmbeddedDocuments", "spell.use",
                "postUseLinkedSpell"} : Count(e) <= 1
  /\ At("createEmbeddedDocuments") # 0 =>
        /\ At("preUseLinkedSpell") # 0
        /\ At("preUseLinkedSpell") < At("createEmbeddedDocuments")
  /\ At("spell.use") # 0 =>
        /\ At("preUseLinkedSpell") # 0
        /\ At("preUseLinkedSpell") < At("spell.use")
        /\ At("createEmbeddedDocuments") < At("spell.use")
  /\ At("postUseLinkedSpell") # 0 =>
        /\ At("spell.use") # 0
        /\ At("spell.use") < At("postUseLinkedSpell")
        /\ castPc = "returned"
        /\ castCall.results # Undefined
  /\ (castPc = "returned" /\ At("spell.use") # 0) =>
        /\ castRet = castCall.results
        /\ (castCall.results # Undefined <=> At("postUseLinkedSpell") # 0)

C4_Witness ==
  /\ castPc = "returned"
  /\ castLog = <<"preUseLinkedSpell", "spell.use", "postUseLinkedSpell">>
  /\ castRet = "results"

\* C5: use() does nothing and returns undefined when the item is not
\* embedded or lives in a compendium; when the item is embedded and the user
\* does not own it, use() only shows one error notification.
C5_Guards ==
  /\ (CastEnded /\ (~item.isEmbedded \/ item.pack)) =>
        castLog = <<>> /\ castPc = "returned" /\ castRet = Undefined
  /\ (CastEnded /\ item.isEmbedded /\ ~item.pack /\ ~item.isOwner) =>
        castLog = <<"notifications.error">> /\ castPc = "returned" /\ castRet = Undefined

C5_Witness ==
  \/ castPc = "returned" /\ item.isEmbedded /\ item.pack /\ item.isOwner
  \/ castPc = "returned" /\ item.isEmbedded /\ ~item.pack /\ ~item.isOwner

\* C6 as claimed: a use() call that passes the guards and finds no cached
\* spell creates one item and calls use() on the created spell, returning
\* its results; one that finds a cached spell creates nothing and uses it.
C6_CreatesThenUses ==
  (CastEnded /\ castCall.hook = "true") =>
     IF castCall.cached = 0
       THEN /\ Count("createEmbeddedDocuments") = 1
            /\ At("spell.use") > At("createEmbeddedDocuments")
            /\ castRet = castCall.results
       ELSE /\ Count("createEmbeddedDocuments") = 0
            /\ At("spell.use") # 0
            /\ castRet = castCall.results

-----------------------------------------------------------------------------
(* rollAction                                                              *)

\* Types whose roll does not need an actor (lines 1091-1095) and types rolled
\* once per actor (lines 1104-1121).
DirectTypes == {"attack", "damage", "item"}
ActorTypes == {"check", "concentration", "save", "skill", "tool"}

\* The roll made for a type: the function rollAction calls.
RollOf(type) ==
  CASE type = "attack" -> "rollAttack"
    [] type = "damage" -> "rollDamage"
    [] type = "item" -> "useItem"
    [] type = "check" -> "rollAbilityCheck"
    [] type = "concentration" -> "rollConcentration"
    [] type = "save" -> "rollSavingThrow"
    [] type = "skill" -> "rollSkill"
    [] type = "tool" -> "rollToolCheck"
    [] OTHER -> "none"

\* A click: whether it landed inside an element rollAction handles, that
\* element's data-type, the data-action of the closest anchor (undefined
\* with no anchor or no data-action), the number of targeted scene tokens
\* and whether the user has an assigned character.
Clicks ==
  [target : {"none", "group"},
   type : DirectTypes \cup ActorTypes \cup {Undefined},
   anchorAction : {Undefined, "roll", "request"},
   sceneTargets : 0..MaxTargets,
   hasCharacter : BOOLEAN]

\* Line 1085: event.target.closest("a")?.dataset.action ?? "roll"
actionOf(c) == IF c.anchorAction = Undefined THEN "roll" ELSE c.anchorAction

\* Line 1088: the direct roll branch is taken for the roll action, and for
\* every action of a user who is not a GM.
directRollMutant(action, gm) == action = "roll"

directRoll(action, gm) == action = "roll" \/ ~gm

NoOutcome == [stopped |-> FALSE, branch |-> "none", rolls |-> <<>>,
              messages |-> 0, warnings |-> 0, disabled |-> FALSE]

\* Lines 1097-1098: the actors of the targeted tokens, or else the user's
\* character.
actorCount(c) ==
  IF c.sceneTargets > 0 THEN c.sceneTargets
  ELSE IF c.hasCharacter THEN 1 ELSE 0

\* rollAction, lines 1075-1143: what one click does.
rollAction(gm, c) ==
  IF c.target = "none" THEN NoOutcome
  ELSE IF directRoll(actionOf(c), gm)
    THEN IF c.type \in DirectTypes
           THEN [NoOutcome EXCEPT !.stopped = TRUE, !.branch = "direct",
                                  !.rolls = <<RollOf(c.type)>>]
         ELSE IF actorCount(c) = 0
           THEN [NoOutcome EXCEPT !.stopped = TRUE, !.branch = "direct",
                                  !.warnings = 1]
         ELSE [NoOutcome EXCEPT !.stopped = TRUE, !.branch = "direct",
                 !.rolls = IF c.type \in ActorTypes
                             THEN [i \in 1..actorCount(c) |-> RollOf(c.type)]
                             ELSE <<>>]
    ELSE [NoOutcome EXCEPT !.stopped = TRUE, !.branch = "request", !.messages = 1]

ClickInit ==
  /\ isGM \in BOOLEAN
  /\ click = ClickRest.click
  /\ clickOut = NoOutcome
  /\ item = CastRest.item
  /\ actorItems = <<>>
  /\ pendingCreates = <<>>
  /\ castPc = "idle"
  /\ castCall = NoCall
  /\ castLog = <<>>
  /\ castRet = Undefined
  /\ match = EnrichRest.match
  /\ options = EnrichRest.options
  /\ enriched = EnrichRest.enriched
  /\ rolled = NoRoll

\* One click on the document body, handled by rollAction.
Click ==
  /\ \E c \in Clicks :
       /\ click' = c
       /\ clickOut' = rollAction(isGM, c)
  /\ UNCHANGED <<isGM, castVars, enrichVars>>

ClickNext == Click

\* C2: a click inside a roll link group takes the direct roll branch when
\* the anchor's action is "roll" (or absent) or the user is no GM, and then
\* creates no chat message and makes its rolls (one for an attack, damage
\* or item link, one per actor otherwise); only a GM clicking another
\* action creates a roll request: exactly one chat message and no roll.
\* No click both rolls and creates a message.
C2_RollOrRequest ==
  click.target = "group" =>
    /\ IF actionOf(click) = "roll" \/ ~isGM
         THEN /\ clickOut.branch = "direct"
              /\ clickOut.messages = 0
              /\ click.type \in DirectTypes => Len(clickOut.rolls) = 1
              /\ (click.type \in ActorTypes /\ actorCount(click) > 0) =>
                    Len(clickOut.rolls) = actorCount(click)
         ELSE /\ clickOut.branch = "request"
              /\ clickOut.messages = 1
              /\ clickOut.rolls = <<>>
    /\ ~(clickOut.rolls # <<>> /\ clickOut.messages > 0)

C2_Witness ==
  /\ click.target = "group"
  /\ isGM
  /\ click.anchorAction = "request"
  /\ click.type = "save"
  /\ clickOut.messages = 1

(* enrichString                                                            *)

\* Line 49: type.toLowerCase()
switchedOnMutant(type) == type

switchedOn(type) == ToLowerCase(type)

\* Lines 49-63: the builder a type is dispatched to; "none" at line 63.
builderFor(type) ==
  LET t == switchedOn(type)
  IN CASE t = <<"a", "t", "t", "a", "c", "k">> -> "enrichAttack"
       [] t = <<"a", "w", "a", "r", "d">> -> "enrichAward"
       [] t \in {<<"h", "e", "a", "l", "i", "n", "g">>, <<"d", "a", "m", "a", "g", "e">>} -> "enrichDamage"
       [] t \in {<<"c", "h", "e", "c", "k">>, <<"s", "k", "i", "l", "l">>, <<"t", "o", "o", "l">>} -> "enrichCheck"
       [] t = <<"l", "o", "o", "k", "u", "p">> -> "enrichLookup"
       [] t \in {<<"c", "o", "n", "c", "e", "n", "t", "r", "a", "t", "i", "o", "n">>, <<"s", "a", "v", "e">>} -> "enrichSave"
       [] t = <<"i", "t", "e", "m">> -> "enrichItem"
       [] t = <<"r", "e", "f", "e", "r", "e", "n", "c", "e">> -> "enrichReference"
       [] OTHER -> "none"

\* The element of a builder that is not modelled further.
Built(builder) == Element(builder, NoDataset, <<>>, "none", <<>>)

\* enrichString(match, options), lines 44-64: the builders called, the marks
\* set on the configuration and the element returned.
enrichString(m, opts) ==
  LET config == parseConfig(m.config, m.type \in {<<"d", "a", "m", "a", "g", "e">>, <<"h", "e", "a", "l", "i", "n", "g">>})
      rules == getRulesVersion(opts)
      builder == builderFor(m.type)
      isHealing == switchedOn(m.type) = <<"h", "e", "a", "l", "i", "n", "g">>
      isConcentration == switchedOn(m.type) = <<"c", "o", "n", "c", "e", "n", "t", "r", "a", "t", "i", "o", "n">>
  IN [calls |-> IF builder = "none" THEN <<>> ELSE <<builder>>,
      isHealing |-> isHealing,
      isConcentration |-> isConcentration,
      result |-> CASE builder = "none" -> NullElement
                   [] builder = "enrichAttack" -> enrichAttack(config.one, m.label, opts, rules)
                   [] builder = "enrichDamage" -> enrichDamage(config, isHealing, m.label, opts)
                   [] OTHER -> Built(builder)]

\* The directives enriched: the parts a configuration is written with, for
\* each type, and the types the registered patterns let through (in either
\* case, the patterns being case-insensitive), with macro standing for a
\* type no case of the switch names.
AttackParts ==
  {<<"+">> \o NatToStr(n) : n \in 0..MaxN} \cup {<<"f", "o", "r", "m", "u", "l", "a", "=">> \o NatToStr(n) : n \in 0..MaxN}
    \cup {<<"a", "c", "t", "i", "v", "i", "t", "y", "=", "a", "1">>, <<"a", "c", "t", "i", "v", "i", "t", "y", "=", "a", "2">>, <<"a", "c", "t", "i", "v", "i", "t", "y", "=", "z", "z">>, <<"t", "h", "r", "o", "w", "n">>, <<"e", "x", "t", "e", "n", "d", "e", "d">>}

DamageParts ==
  {<<"2", "d", "6">>, <<"1", "d", "6">>, <<"f", "i", "r", "e">>, <<"t", "y", "p", "e", "=", "f", "i", "r", "e">>, <<"t", "y", "p", "e", "=", "f", "i", "r", "e", "/", "c", "o", "l", "d">>, <<"t", "y", "p", "e", "=", "f", "i", "r", "e", "|", "c", "o", "l", "d">>, <<"t", "y", "p", "e", "=", "a", "c", "i", "d", "/", "f", "i", "r", "e", "/", "c", "o", "l", "d">>,
   <<"t", "y", "p", "e", "=", "a", "c", "i", "d", "|", "f", "i", "r", "e", "|", "c", "o", "l", "d">>, <<"h", "e", "a", "l", "i", "n", "g">>, <<"a", "c", "t", "i", "v", "i", "t", "y", "=", "a", "2">>, <<"&">>}

OtherParts == {<<"d", "e", "x">>, <<"d", "c", "=", "1", "5">>}

TypeNames ==
  {<<"a", "t", "t", "a", "c", "k">>, <<"a", "w", "a", "r", "d">>, <<"c", "h", "e", "c", "k">>, <<"c", "o", "n", "c", "e", "n", "t", "r", "a", "t", "i", "o", "n">>, <<"d", "a", "m", "a", "g", "e">>, <<"h", "e", "a", "l", "i", "n", "g">>, <<"i", "t", "e", "m">>, <<"s", "a", "v", "e">>, <<"s", "k", "i", "l", "l">>,
   <<"t", "o", "o", "l">>, <<"l", "o", "o", "k", "u", "p">>, <<"R", "e", "f", "e", "r", "e", "n", "c", "e">>, <<"D", "a", "m", "a", "g", "e">>, <<"m", "a", "c", "r", "o">>}

PartsFor(type) ==
  IF type = <<"a", "t", "t", "a", "c", "k">> THEN AttackParts
  ELSE IF type \in {<<"d", "a", "m", "a", "g", "e">>, <<"h", "e", "a", "l", "i", "n", "g">>, <<"D", "a", "m", "a", "g", "e">>} THEN DamageParts
  ELSE OtherParts

\* The configuration group of a match: a blank before each part; the group
\* is absent when there is no part.
ConfigOf(ps) ==
  IF ps = <<>> THEN Undef
  ELSE Str(Join([i \in 1..Len(ps) |-> <<" ">> \o ps[i]], <<>>))

PartSeqs(V) == UNION {[1..k -> V] : k \in 0..MaxParts}

Matches ==
  UNION {[type : {t}, config : {ConfigOf(ps) : ps \in PartSeqs(PartsFor(t))},
          label : {Undef, Str(<<"L">>)}] : t \in TypeNames}

Options == [relativeTo : Items, rulesVersion : {"modern", "legacy"}]

NotYet == [calls |-> <<>>, isHealing |-> FALSE, isConcentration |-> FALSE,
           result |-> Element("pending", NoDataset, <<>>, "none", <<>>)]

EnrichInit ==
  /\ match \in Matches
  /\ options \in Options
  /\ enriched = NotYet
  /\ rolled = NoRoll
  /\ item = CastRest.item
  /\ actorItems = <<>>
  /\ pendingCreates = <<>>
  /\ castPc = "idle"
  /\ castCall = NoCall
  /\ castLog = <<>>
  /\ castRet = Undefined
  /\ isGM = ClickRest.isGM
  /\ click = ClickRest.click
  /\ clickOut = ClickRest.clickOut

\* The text editor calls the enricher on a match of a registered pattern.
Enrich ==
  /\ enriched = NotYet
  /\ enriched' = enrichString(match, options)
  /\ UNCHANGED <<match, options, rolled, castVars, clickVars>>

\* A click on the link group of an enriched damage directive: rollAction
\* (lines 1088-1094) rolls directly, the anchors of a damage link carrying
\* no action, and calls rollDamage with the group's data set.
ClickDamage ==
  /\ rolled = NoRoll
  /\ enriched.result.kind \in {"a.roll-link-group", "span.damage-extended"}
  /\ \E found \in BOOLEAN :
       rolled' = rollDamage(enriched.result.dataset, found)
  /\ UNCHANGED <<match, options, enriched, castVars, clickVars>>

EnrichNext == Enrich \/ ClickDamage

-----------------------------------------------------------------------------
(* Claims about the enrichers                                              *)

Done == enriched # NotYet

\* The parts the enriched directive is written with.
Written == IF match.config.t = "undefined" THEN <<>> ELSE Parts(match.config.s)

WrittenWith(prefix) == {i \in 1..Len(Written) : StartsWith(Written[i], prefix)}

\* The activity ID written as activity=ID, when there is one: a key written
\* twice keeps its last value.
WrittenId ==
  LET written == WrittenWith(<<"a", "c", "t", "i", "v", "i", "t", "y", "=">>)
      last == CHOOSE i \in written : \A j \in written : j <= i
  IN SubSeq(Written[last], 10, Len(Written[last]))

\* A formula written as formula=..., or as a positional value (a part
\* without "=" that is neither an attack mode nor the word extended).
WritesKeyFormula == WrittenWith(<<"f", "o", "r", "m", "u", "l", "a", "=">>) # {}

WritesPositionalFormula ==
  \E i \in 1..Len(Written) :
    IndexOf(Written[i], "=") = 0 /\ Written[i] \notin AttackModes \cup {<<"e", "x", "t", "e", "n", "d", "e", "d">>}

IsLink(e) == e.kind \notin {"null", "TypeError", "pending"}

\* The activities of the item the text belongs to that carry the written ID.
Named == {i \in 1..Len(options.relativeTo.activities) :
            options.relativeTo.activities[i].id = WrittenId}

\* C1: every recognised type is dispatched to exactly one builder, healing
\* and concentration being marked on the way; any other type calls no
\* builder and gives null.
C1_Dispatch ==
  Done =>
    LET t == match.type
        expect == [calls |-> <<>>, h |-> FALSE, c |-> FALSE]
        to(b) == [expect EXCEPT !.calls = <<b>>]
        want ==
          CASE t = <<"a", "t", "t", "a", "c", "k">> -> to("enrichAttack")
            [] t = <<"a", "w", "a", "r", "d">> -> to("enrichAward")
            [] t \in {<<"d", "a", "m", "a", "g", "e">>, <<"D", "a", "m", "a", "g", "e">>} -> to("enrichDamage")
            [] t = <<"h", "e", "a", "l", "i", "n", "g">> -> [to("enrichDamage") EXCEPT !.h = TRUE]
            [] t \in {<<"c", "h", "e", "c", "k">>, <<"s", "k", "i", "l", "l">>, <<"t", "o", "o", "l">>} -> to("enrichCheck")
            [] t = <<"l", "o", "o", "k", "u", "p">> -> to("enrichLookup")
            [] t = <<"s", "a", "v", "e">> -> to("enrichSave")
            [] t = <<"c", "o", "n", "c", "e", "n", "t", "r", "a", "t", "i", "o", "n">> -> [to("enrichSave") EXCEPT !.c = TRUE]
            [] t = <<"i", "t", "e", "m">> -> to("enrichItem")
            [] t = <<"R", "e", "f", "e", "r", "e", "n", "c", "e">> -> to("enrichReference")
            [] OTHER -> expect
    IN /\ enriched.calls = want.calls
       /\ enriched.isHealing = want.h
       /\ enriched.isConcentration = want.c
       /\ want.calls = <<>> => enriched.result = NullElement

C1_Witness ==
  /\ Done
  /\ match.type = <<"R", "e", "f", "e", "r", "e", "n", "c", "e">>
  /\ enriched.calls = <<"enrichReference">>

\* C7 as claimed: an attack directive that writes an activity ID and a
\* formula, as formula=... or as a positional value, gives null.
C7_BothRejected ==
  (Done /\ match.type = <<"a", "t", "t", "a", "c", "k">> /\ WrittenWith(<<"a", "c", "t", "i", "v", "i", "t", "y", "=">>) # {}
        /\ (WritesKeyFormula \/ WritesPositionalFormula)) =>
     enriched.result = NullElement

\* C8 as claimed: [[/attack +N]] and [[/attack formula=N]] give the same
\* dataset and text, with formula "+N" and text "+N".
C8_SpellingsAgree ==
  \A n \in 0..MaxN :
    (Done /\ match.type = <<"a", "t", "t", "a", "c", "k">> /\ match.label = Undef
          /\ match.config = Str(<<" ", "+">> \o NatToStr(n))
          /\ ~options.relativeTo.exists) =>
       LET other == enrichString([match EXCEPT !.config = Str(<<" ", "f", "o", "r", "m", "u", "l", "a", "=">> \o NatToStr(n))],
                                 options).result
       IN /\ enriched.result.dataset = other.dataset
          /\ enriched.result.text = other.text
          /\ <<"f", "o", "r", "m", "u", "l", "a">> \in DOMAIN enriched.result.dataset
          /\ enriched.result.dataset[<<"f", "o", "r", "m", "u", "l", "a">>] = <<"+">> \o NatToStr(n)
          /\ enriched.result.text = <<"+">> \o NatToStr(n)

\* C9 as claimed: an attack link carries the uuid of the activity written as
\* activity=ID; with no activity and no formula, that of the item's first
\* attack activity; with a formula and no activity ID, no activity uuid. A
\* linked activity's attack formula is the link's formula.
C9_ActivityLink ==
  (Done /\ match.type = <<"a", "t", "t", "a", "c", "k">> /\ IsLink(enriched.result)) =>
     LET data == enriched.result.dataset
         acts == options.relativeTo.activities
         attacks == {i \in 1..Len(acts) : acts[i].type = "attack"}
         first == CHOOSE i \in attacks : \A j \in attacks : i <= j
     IN /\ (WrittenWith(<<"a", "c", "t", "i", "v", "i", "t", "y", "=">>) # {} /\ Named # {}) =>
             /\ <<"a", "c", "t", "i", "v", "i", "t", "y", "U", "u", "i", "d">> \in DOMAIN data
             /\ \E i \in Named : data[<<"a", "c", "t", "i", "v", "i", "t", "y", "U", "u", "i", "d">>] = uuidOf(acts[i])
        /\ (WrittenWith(<<"a", "c", "t", "i", "v", "i", "t", "y", "=">>) = {} /\ ~WritesKeyFormula /\ ~WritesPositionalFormula) =>
             /\ <<"a", "c", "t", "i", "v", "i", "t", "y", "U", "u", "i", "d">> \in DOMAIN data
             /\ attacks # {}
             /\ data[<<"a", "c", "t", "i", "v", "i", "t", "y", "U", "u", "i", "d">>] = uuidOf(acts[first])
        /\ (WrittenWith(<<"a", "c", "t", "i", "v", "i", "t", "y", "=">>) = {} /\ (WritesKeyFormula \/ WritesPositionalFormula)) =>
             <<"a", "c", "t", "i", "v", "i", "t", "y", "U", "u", "i", "d">> \notin DOMAIN data
        /\ <<"a", "c", "t", "i", "v", "i", "t", "y", "U", "u", "i", "d">> \in DOMAIN data =>
             \E i \in 1..Len(acts) :
               /\ data[<<"a", "c", "t", "i", "v", "i", "t", "y", "U", "u", "i", "d">>] = uuidOf(acts[i])
               /\ data[<<"f", "o", "r", "m", "u", "l", "a">>] = acts[i].toHit

\* C10 as claimed: a damage link written with activity=ID carries the uuid
\* of the item's activity with that ID and the formulas and damage types of
\* that activity's damage rolls.
C10_NamedDamageActivity ==
  (Done /\ match.type = <<"d", "a", "m", "a", "g", "e">> /\ WrittenWith(<<"a", "c", "t", "i", "v", "i", "t", "y", "=">>) # {} /\ Named # {}
        /\ IsLink(enriched.result)) =>
     LET data == enriched.result.dataset
         acts == options.relativeTo.activities
     IN \E i \in Named :
          /\ <<"a", "c", "t", "i", "v", "i", "t", "y", "U", "u", "i", "d">> \in DOMAIN data
          /\ data[<<"a", "c", "t", "i", "v", "i", "t", "y", "U", "u", "i", "d">>] = uuidOf(acts[i])
          /\ data[<<"f", "o", "r", "m", "u", "l", "a", "s">>] = Join([r \in 1..Len(acts[i].rolls) |-> acts[i].rolls[r].formula], <<"&">>)
          /\ data[<<"d", "a", "m", "a", "g", "e", "T", "y", "p", "e", "s">>] =
               Join([r \in 1..Len(acts[i].rolls) |-> Join(acts[i].rolls[r].types, <<"|">>)], <<"&">>)

\* The parts of the written configuration, grouped at each "&".
RECURSIVE SegmentsOf(_)
SegmentsOf(ps) ==
  IF ps = <<>> THEN << <<>> >>
  ELSE LET rest == SegmentsOf(Tail(ps))
       IN IF Head(ps) = <<"&">> THEN << <<>> >> \o rest
          ELSE << <<Head(ps)>> \o rest[1] >> \o Tail(rest)

\* The words of a damage directive that are not part of a formula.
DamageWords == DamageTypes \cup HealingTypes \cup AttackModes \cup {<<"a", "v", "e", "r", "a", "g", "e">>, <<"e", "x", "t", "e", "n", "d", "e", "d">>, <<"t", "e", "m", "p">>}

\* The formula a segment is written with: its positional parts that are no
\* damage word, separated by blanks.
SegmentFormula(seg) ==
  Join(SelectSeq(seg, LAMBDA p : IndexOf(p, "=") = 0 /\ p \notin DamageWords), <<" ">>)

\* The damage type a segment is written with: a positional type, or else
\* the value of type=, its alternatives separated by "|"; empty when none.
SegmentType(seg) ==
  LET named == SelectSeq(seg, LAMBDA p : p \in DamageTypes \cup HealingTypes)
      keyed == SelectSeq(seg, LAMBDA p : StartsWith(p, <<"t", "y", "p", "e", "=">>))
  IN IF named # <<>> THEN named[Len(named)]
     ELSE IF keyed # <<>>
       THEN Join(Split(SubSeq(keyed[Len(keyed)], 6, Len(keyed[Len(keyed)])), "/"), <<"|">>)
     ELSE <<>>

\* The segments of the written directive that hold a formula.
FormulaSegments == SelectSeq(SegmentsOf(Written), LAMBDA seg : SegmentFormula(seg) # <<>>)

WrittenFormulas == [i \in 1..Len(FormulaSegments) |-> SegmentFormula(FormulaSegments[i])]

WrittenTypes == [i \in 1..Len(FormulaSegments) |-> SegmentType(FormulaSegments[i])]

\* C11 as claimed: a damage directive written with its own formulas gives a
\* link whose formulas and damage types are those written, in order, and
\* which carries no activity uuid, whatever activities the item has.
C11_OwnFormulas ==
  (Done /\ match.type = <<"d", "a", "m", "a", "g", "e">> /\ WrittenFormulas # <<>>
        /\ WrittenWith(<<"a", "c", "t", "i", "v", "i", "t", "y", "=">>) = {} /\ IsLink(enriched.result)) =>
     LET data == enriched.result.dataset
     IN /\ <<"a", "c", "t", "i", "v", "i", "t", "y", "U", "u", "i", "d">> \notin DOMAIN data
        /\ data[<<"f", "o", "r", "m", "u", "l", "a", "s">>] = Join(WrittenFormulas, <<"&">>)
        /\ IF Join(WrittenTypes, <<"&">>) = <<>> THEN <<"d", "a", "m", "a", "g", "e", "T", "y", "p", "e", "s">> \notin DOMAIN data
           ELSE /\ <<"d", "a", "m", "a", "g", "e", "T", "y", "p", "e", "s">> \in DOMAIN data
                /\ data[<<"d", "a", "m", "a", "g", "e", "T", "y", "p", "e", "s">>] = Join(WrittenTypes, <<"&">>)

\* The same directive spelled [[/damage F healing]], for [[/healing F]].
DamageSpelling ==
  enrichString([match EXCEPT !.type = <<"d", "a", "m", "a", "g", "e">>,
                             !.config = Str(<<" ">> \o Written[1] \o <<" ", "h", "e", "a", "l", "i", "n", "g">>)],
               options).result

\* C12 as claimed: [[/healing F]] and [[/damage F healing]] give the same
\* link: the same element and data set, the roll type included, with damage
\* type healing, and a click on either rolls the same.
C12_HealingSpellings ==
  (Done /\ match.type = <<"h", "e", "a", "l", "i", "n", "g">> /\ Len(Written) = 1 /\ WrittenFormulas # <<>>
        /\ IsLink(enriched.result)) =>
     /\ enriched.result = DamageSpelling
     /\ <<"d", "a", "m", "a", "g", "e", "T", "y", "p", "e", "s">> \in DOMAIN enriched.result.dataset
     /\ Split(enriched.result.dataset[<<"d", "a", "m", "a", "g", "e", "T", "y", "p", "e", "s">>], "&")[1] = <<"h", "e", "a", "l", "i", "n", "g">>
     /\ rolled # NoRoll =>
          rolled = rollDamage(DamageSpelling.dataset, rolled.via = "activity.rollDamage")

\* The parts written as type=... with "/" between the alternatives.
SlashTyped == {i \in WrittenWith(<<"t", "y", "p", "e", "=">>) : IndexOf(Written[i], "/") # 0}

\* The same directive with every "/" written as "|".
BarSpelling ==
  enrichString([match EXCEPT !.config = Str(Join(Split(match.config.s, "/"), <<"|">>))],
               options).result

\* C13 as claimed: alternatives separated by "/" give the damage types
\* string of the same alternatives separated by "|", and a click offers each
\* written alternative as a type of its roll, the first being the default.
C13_SeparatorsAgree ==
  (Done /\ match.type = <<"d", "a", "m", "a", "g", "e">> /\ SlashTyped # {} /\ IsLink(enriched.result)) =>
     LET data == enriched.result.dataset
     IN /\ enriched.result = BarSpelling
        /\ <<"d", "a", "m", "a", "g", "e", "T", "y", "p", "e", "s">> \in DOMAIN data => IndexOf(data[<<"d", "a", "m", "a", "g", "e", "T", "y", "p", "e", "s">>], "/") = 0
        /\ rolled.via = "DamageRoll.build" =>
             /\ rolled = rollDamage(BarSpelling.dataset, FALSE)
             /\ \A i \in 1..Len(WrittenFormulas) :
                  /\ rolled.rolls[i].types = Split(WrittenTypes[i], "|")
                  /\ rolled.rolls[i].type = Str(Split(WrittenTypes[i], "|")[1])

-----------------------------------------------------------------------------


Spec == EnrichInit /\ [][EnrichNext]_vars

CastSpec == CastInit /\ [][CastNext]_vars

ClickSpec == ClickInit /\ [][ClickNext]_vars

=============================================================================
